---- MODULE Spec2Model ----
(***************************************************************************)
(* ReminderBot: the reminder table (reminders.db), the APScheduler job     *)
(* store (jobs.db), the in-memory scheduler, the ReminderService           *)
(* coroutines and the process life cycle of main().                        *)
(*                                                                         *)
(* Time is counted in whole seconds (the resolution of job_id).  Texts are *)
(* represented by their shape <<lead, core, trail>>: the number of leading *)
(* whitespace characters, the length of the part between the first and the *)
(* last non-whitespace character, and the number of trailing whitespace    *)
(* characters; an all-whitespace text has core = 0.                        *)
(* The host's local zone is taken to be the configured zone, so a stored   *)
(* remind_time and the restored trigger denote the same instant.           *)
(*                                                                         *)
(* Coroutines are split at the awaits where another callback of the event  *)
(* loop can run: create_reminder at session.commit(), delete_reminder at   *)
(* the SELECT and at session.commit().  The fields uid (rows, jobs, tasks, *)
(* calls), the counter created and the sets late, uninterrupted, deleted   *)
(* and unarmed are history state: uid names the create_reminder call a row *)
(* or job stems from.                                                      *)
(*                                                                         *)
(* Spec is the service: ReminderService coroutines interleaved with the    *)
(* scheduler, the clock and restarts.  SpecFault is Spec with add_job      *)
(* raising, in create_reminder and in the loop of restore_reminders.       *)
(* SpecBot is the conversation: the BotHandlers run one update at a time   *)
(* in a running process.                                                   *)
(***************************************************************************)
EXTENDS Integers, Sequences, FiniteSets, TLC

VARIABLES
    now,            \* the clock, in seconds
    phase,          \* "down" | "restored" (main between restore and start) | "running"
    reminders,      \* rows of table reminders
    jobstore,       \* jobs of the SQLAlchemyJobStore (jobs.db)
    pending_jobs,   \* scheduler._pending_jobs: jobs added while the scheduler is stopped
    task,           \* the in-flight ReminderService coroutines
    calls,          \* log of sync_tasks.send_reminder invocations
    created,        \* number of create_reminder calls so far (source of uid)
    late,           \* uids of the reminders found elapsed and undelivered, with their
                    \* job still stored, when restore_reminders last ran
    uninterrupted,  \* uids whose create_reminder returned before remind_time, in this
                    \* run of the process
    deleted,        \* the reminder ids delete_reminder has returned True for
    unarmed,        \* uids whose create_reminder committed its row and never ran
                    \* add_job to its end, since the scheduler last started
    user_contexts,  \* components.user_contexts
    reply           \* what the handler of the last update answered the user

hist_vars == <<late, uninterrupted, deleted, unarmed>>
bot_vars == <<user_contexts, reply>>
vars == <<now, phase, reminders, jobstore, pending_jobs, task, calls, created,
          late, uninterrupted, deleted, unarmed, user_contexts, reply>>

\* ---------------------------------------------------------------- bounds
MaxTime == 3
MaxCreates == 2
MaxTasks == 2
MaxBotUsers == 1

\* The users, each writing from one chat: <<user_id, chat_id>>.
Senders == {<<1, 7>>, <<2, 8>>}
Tasks == 1..MaxTasks
Times == 0..MaxTime

\* ---------------------------------------------------------------- constants
MaxTextLen == 500
MisfireGraceTime == 1

\* ---------------------------------------------------------------- texts
TextLen(v) == v[1] + v[2] + v[3]

strip(v) == <<0, v[2], 0>>

\* The texts create_reminder is tried with: "a", " a ", 501 characters.
TextInputs == {<<0, 1, 0>>, <<1, 1, 1>>, <<0, MaxTextLen + 1, 0>>}

\* ---------------------------------------------------------------- ReminderCreate
validate_text_raises(v) == TextLen(v) > MaxTextLen

validate_text(v) == strip(v)

\* mutant: a remind_time equal to now passes
validate_remind_time_raises_lt(v, t) == v < t

validate_remind_time_raises(v, t) == v <= t

ReminderCreate_raises(text, remind_time, t) ==
    validate_text_raises(text) \/ validate_remind_time_raises(remind_time, t)

ReminderCreate(user_id, chat_id, text, remind_time) ==
    [user_id |-> user_id, chat_id |-> chat_id,
     text |-> validate_text(text), remind_time |-> remind_time]

\* ---------------------------------------------------------------- table reminders
SetMax(S) == CHOOSE x \in S : \A y \in S : y <= x

\* INTEGER PRIMARY KEY without AUTOINCREMENT: one more than the largest id in use.
NextId(rows) == IF rows = {} THEN 1 ELSE SetMax({r.id : r \in rows}) + 1

\* f"reminder_{user_id}_{int(timestamp)}"
make_job_id(user_id, t) == <<user_id, t>>

ReminderModel(rows, reminder, job_id, uid) ==
    [id |-> NextId(rows), user_id |-> reminder.user_id, chat_id |-> reminder.chat_id,
     text |-> reminder.text, remind_time |-> reminder.remind_time,
     job_id |-> job_id, uid |-> uid]

\* unique=True on job_id
UniqueViolation(rows, job_id) == \E r \in rows : r.job_id = job_id

get_user_reminders(rows, t, user_id) ==
    {r \in rows : r.user_id = user_id /\ r.remind_time > t}

\* mutant: the WHERE clause is lost
select_job_id_any(rows, reminder_id) == {r.job_id : r \in rows}

select_job_id(rows, reminder_id) == {r.job_id : r \in {x \in rows : x.id = reminder_id}}

\* mutant: the DELETE takes the older rows along
delete_where_id_le(rows, reminder_id) == {r \in rows : r.id > reminder_id}

\* mutant: the DELETE removes nothing
delete_where_id_none(rows, reminder_id) == rows

delete_where_id(rows, reminder_id) == {r \in rows : r.id # reminder_id}

\* mutant: the filter on remind_time is forgotten
restore_select_all(rows, t) == rows

\* mutant: the comparison is turned round
restore_select_lt(rows, t) == {r \in rows : r.remind_time < t}

\* mutant: a reminder due this very second is restored too
restore_select_ge(rows, t) == {r \in rows : r.remind_time >= t}

restore_select(rows, t) == {r \in rows : r.remind_time > t}

\* ---------------------------------------------------------------- scheduler
Job(job_id, run_date, chat_id, text, uid) ==
    [id |-> job_id, run_date |-> run_date, args |-> <<chat_id, text>>, uid |-> uid]

get_job(jobs, job_id) == {j \in jobs : j.id = job_id}

\* mutant: the job stays in the store
remove_job_none(jobs, job_id) == jobs

remove_job(jobs, job_id) == {j \in jobs : j.id # job_id}

\* mutant: the job is added beside the one stored under its id
add_job_beside(jobs, job) == jobs \cup {job}

\* add_job(..., id=job.id, replace_existing=True)
add_job(jobs, job) == remove_job(jobs, job.id) \cup {job}

\* remove_all_jobs(): a stopped scheduler drops its pending jobs and leaves the
\* job store alone; a running one empties the store.
remove_all_jobs_store(state, jobs) == IF state = "running" THEN {} ELSE jobs

\* start(): every pending job is added to the store with its replace_existing flag.
start_store(jobs, pending) ==
    {j \in jobs : \A p \in pending : p.id # j.id} \cup pending

Due(jobs, t) == {j \in jobs : j.run_date <= t}

Missed(job, t) == t - job.run_date > MisfireGraceTime

Invocations(log, uid) == Cardinality({i \in DOMAIN log : log[i].uid = uid})

\* mutant: the first add_job that raises ends the loop with nothing armed
restore_add_jobs_abort(rows, failed) ==
    IF failed = {} THEN {Job(r.job_id, r.remind_time, r.chat_id, r.text, r.uid) : r \in rows}
                   ELSE {}

\* The loop of restore_reminders: one add_job per row, in a try of its own.
restore_add_jobs(rows, failed) ==
    {Job(r.job_id, r.remind_time, r.chat_id, r.text, r.uid) : r \in rows \ failed}

\* ---------------------------------------------------------------- tasks
Idle == [op |-> "idle"]

Users == {s[1] : s \in Senders}
NoContext == [state |-> "none"]
NoReply == [kind |-> "none"]

\* A new coroutine takes the first free slot.
FreeTask(t) == task[t] = Idle /\ \A s \in Tasks : s < t => task[s] # Idle

TypeOK ==
    /\ now \in Times
    /\ phase \in {"down", "restored", "running"}
    /\ created \in 0..MaxCreates

Init ==
    /\ now = 0
    /\ phase = "down"
    /\ reminders = {}
    /\ jobstore = {}
    /\ pending_jobs = {}
    /\ task = [t \in Tasks |-> Idle]
    /\ calls = <<>>
    /\ created = 0
    /\ late = {}
    /\ uninterrupted = {}
    /\ deleted = {}
    /\ unarmed = {}
    /\ user_contexts = [u \in Users |-> NoContext]
    /\ reply = NoReply

\* ---------------------------------------------------------------- main()
\* restore_reminders(), called by main() on a stopped scheduler; failed are the
\* selected rows whose add_job raises, which the loop logs and passes over.
restore_reminders_run(failed) ==
    /\ phase = "down"
    /\ phase' = "restored"
    /\ jobstore' = remove_all_jobs_store(phase, jobstore)
    /\ pending_jobs' = restore_add_jobs(restore_select(reminders, now), failed)
    /\ late' = {r.uid : r \in {x \in reminders :
                    /\ x.remind_time < now
                    /\ Invocations(calls, x.uid) = 0
                    /\ \E j \in jobstore : j.uid = x.uid}}
    /\ UNCHANGED <<now, reminders, task, calls, created, uninterrupted>>
    /\ UNCHANGED bot_vars
    /\ UNCHANGED <<deleted, unarmed>>

\* No add_job raises.
restore_reminders == restore_reminders_run({})

\* components.scheduler.start()
scheduler_start ==
    /\ phase = "restored"
    /\ phase' = "running"
    /\ jobstore' = start_store(jobstore, pending_jobs)
    /\ pending_jobs' = {}
    /\ unarmed' = {}
    /\ UNCHANGED <<now, reminders, task, calls, created, late, uninterrupted>>
    /\ UNCHANGED bot_vars
    /\ UNCHANGED deleted

\* The process stops or dies: coroutines and in-memory state are lost.
Crash ==
    /\ phase = "running"
    /\ phase' = "down"
    /\ task' = [t \in Tasks |-> Idle]
    /\ pending_jobs' = {}
    /\ late' = {}
    /\ uninterrupted' = {}
    /\ unarmed' = unarmed \cup
            {task[t].uid : t \in {x \in Tasks : task[x].op = "create" /\ task[x].pc = "arm"}}
    /\ UNCHANGED <<now, reminders, jobstore, calls, created>>
    /\ UNCHANGED bot_vars
    /\ UNCHANGED deleted

\* ---------------------------------------------------------------- create_reminder
\* ReminderCreate(...) then create_reminder up to the await of session.commit().
create_begin(t, user_id, chat_id, text, remind_time) ==
    /\ phase = "running"
    /\ FreeTask(t)
    /\ created < MaxCreates
    /\ ~ReminderCreate_raises(text, remind_time, now)
    /\ LET job_id == make_job_id(user_id, now)
       IN /\ jobstore' = IF get_job(jobstore, job_id) # {}
                            THEN remove_job(jobstore, job_id) ELSE jobstore
          /\ task' = [task EXCEPT ![t] =
                        [op |-> "create", pc |-> "commit",
                         reminder |-> ReminderCreate(user_id, chat_id, text, remind_time),
                         job_id |-> job_id, uid |-> created + 1]]
    /\ created' = created + 1
    /\ UNCHANGED <<now, phase, reminders, pending_jobs, calls, late, uninterrupted>>
    /\ UNCHANGED bot_vars
    /\ UNCHANGED <<deleted, unarmed>>

\* session.add(reminder_model); await session.commit()
create_commit(t) ==
    /\ phase = "running"
    /\ task[t].op = "create" /\ task[t].pc = "commit"
    /\ ~UniqueViolation(reminders, task[t].job_id)
    /\ reminders' = reminders \cup
            {ReminderModel(reminders, task[t].reminder, task[t].job_id, task[t].uid)}
    /\ task' = [task EXCEPT ![t].pc = "arm"]
    /\ UNCHANGED <<now, phase, jobstore, pending_jobs, calls, created, late, uninterrupted>>
    /\ UNCHANGED bot_vars
    /\ UNCHANGED <<deleted, unarmed>>

\* session.commit() raises IntegrityError: create_reminder raises.
create_commit_conflict(t) ==
    /\ phase = "running"
    /\ task[t].op = "create" /\ task[t].pc = "commit"
    /\ UniqueViolation(reminders, task[t].job_id)
    /\ task' = [task EXCEPT ![t] = Idle]
    /\ UNCHANGED <<now, phase, reminders, jobstore, pending_jobs, calls, created, late, uninterrupted>>
    /\ UNCHANGED bot_vars
    /\ UNCHANGED <<deleted, unarmed>>

\* scheduler.add_job(..., replace_existing=True); return reminder_model
create_arm(t) ==
    /\ phase = "running"
    /\ task[t].op = "create" /\ task[t].pc = "arm"
    /\ jobstore' = add_job(jobstore,
            Job(task[t].job_id, task[t].reminder.remind_time,
                task[t].reminder.chat_id, task[t].reminder.text, task[t].uid))
    /\ task' = [task EXCEPT ![t] = Idle]
    /\ uninterrupted' = IF task[t].reminder.remind_time > now
                            THEN uninterrupted \cup {task[t].uid} ELSE uninterrupted
    /\ UNCHANGED <<now, phase, reminders, pending_jobs, calls, created, late>>
    /\ UNCHANGED bot_vars
    /\ UNCHANGED <<deleted, unarmed>>

\* ---------------------------------------------------------------- delete_reminder
\* SELECT job_id WHERE id = reminder_id; a missing row returns False at once.
delete_select(t, reminder_id) ==
    /\ phase = "running"
    /\ FreeTask(t)
    /\ select_job_id(reminders, reminder_id) # {}
    /\ task' = [task EXCEPT ![t] =
                    [op |-> "delete", pc |-> "commit", id |-> reminder_id,
                     job_id |-> CHOOSE j \in select_job_id(reminders, reminder_id) : TRUE]]
    /\ UNCHANGED <<now, phase, reminders, jobstore, pending_jobs, calls, created, late, uninterrupted>>
    /\ UNCHANGED bot_vars
    /\ UNCHANGED <<deleted, unarmed>>

\* DELETE WHERE id = reminder_id; await session.commit()
delete_commit(t) ==
    /\ phase = "running"
    /\ task[t].op = "delete" /\ task[t].pc = "commit"
    /\ reminders' = delete_where_id(reminders, task[t].id)
    /\ task' = [task EXCEPT ![t].pc = "remove"]
    /\ UNCHANGED <<now, phase, jobstore, pending_jobs, calls, created, late, uninterrupted>>
    /\ UNCHANGED bot_vars
    /\ UNCHANGED <<deleted, unarmed>>

\* scheduler.remove_job(job_id), a JobLookupError being logged; return True
delete_remove_job(t) ==
    /\ phase = "running"
    /\ task[t].op = "delete" /\ task[t].pc = "remove"
    /\ jobstore' = remove_job(jobstore, task[t].job_id)
    /\ task' = [task EXCEPT ![t] = Idle]
    /\ deleted' = deleted \cup {task[t].id}
    /\ UNCHANGED <<now, phase, reminders, pending_jobs, calls, created, late, uninterrupted>>
    /\ UNCHANGED bot_vars
    /\ UNCHANGED unarmed

\* ---------------------------------------------------------------- firing
\* The scheduler runs a due job: sync_tasks.send_reminder(chat_id, text), whose
\* send_message succeeds (sent) or raises and is logged; the date job is removed.
fire(job, sent) ==
    /\ phase = "running"
    /\ job \in Due(jobstore, now)
    /\ ~Missed(job, now)
    /\ calls' = Append(calls,
            [uid |-> job.uid, job_id |-> job.id, chat_id |-> job.args[1],
             text |-> job.args[2], sent |-> sent,
             row |-> \E r \in reminders : r.job_id = job.id])
    /\ jobstore' = remove_job(jobstore, job.id)
    /\ UNCHANGED <<now, phase, reminders, pending_jobs, task, created, late, uninterrupted>>
    /\ UNCHANGED bot_vars
    /\ UNCHANGED <<deleted, unarmed>>

\* A job later than misfire_grace_time is skipped and removed.
misfire(job) ==
    /\ phase = "running"
    /\ job \in Due(jobstore, now)
    /\ Missed(job, now)
    /\ jobstore' = remove_job(jobstore, job.id)
    /\ UNCHANGED <<now, phase, reminders, pending_jobs, task, calls, created, late, uninterrupted>>
    /\ UNCHANGED bot_vars
    /\ UNCHANGED <<deleted, unarmed>>

Fire == \E j \in jobstore, s \in BOOLEAN : fire(j, s)

Misfire == \E j \in jobstore : misfire(j)

\* A second passes.  A running scheduler wakes at each run_date, so no job is
\* left due when the clock moves on; main() does not wait between restore and start.
Tick ==
    /\ now < MaxTime
    /\ phase # "restored"
    /\ phase = "running" => Due(jobstore, now) = {}
    /\ now' = now + 1
    /\ UNCHANGED <<phase, reminders, jobstore, pending_jobs, task, calls, created, late, uninterrupted>>
    /\ UNCHANGED bot_vars
    /\ UNCHANGED <<deleted, unarmed>>

Next ==
    \/ restore_reminders
    \/ scheduler_start
    \/ Crash
    \/ \E t \in Tasks, s \in Senders, x \in TextInputs, rt \in Times :
            create_begin(t, s[1], s[2], x, rt)
    \/ \E t \in Tasks : create_commit(t)
    \/ \E t \in Tasks : create_commit_conflict(t)
    \/ \E t \in Tasks : create_arm(t)
    \/ \E t \in Tasks, id \in 1..MaxCreates : delete_select(t, id)
    \/ \E t \in Tasks : delete_commit(t)
    \/ \E t \in Tasks : delete_remove_job(t)
    \/ Fire
    \/ Misfire
    \/ Tick

Spec == Init /\ [][Next]_vars

\* ================================================================ add_job raising
\* scheduler.add_job raises in create_reminder: the exception leaves the
\* coroutine after the row was committed.
create_arm_fails(t) ==
    /\ phase = "running"
    /\ task[t].op = "create" /\ task[t].pc = "arm"
    /\ task' = [task EXCEPT ![t] = Idle]
    /\ unarmed' = unarmed \cup {task[t].uid}
    /\ UNCHANGED <<now, phase, reminders, jobstore, pending_jobs, calls, created, late,
                   uninterrupted, deleted>>
    /\ UNCHANGED bot_vars

\* restore_reminders in which add_job raises for some of the rows.
restore_reminders_fault ==
    \E failed \in SUBSET restore_select(reminders, now) :
        failed # {} /\ restore_reminders_run(failed)

NextFault ==
    \/ Next
    \/ \E t \in Tasks : create_arm_fails(t)
    \/ restore_reminders_fault

SpecFault == Init /\ [][NextFault]_vars

\* ================================================================ BotHandlers
\* A text message: its text and what TimeInputParser.parse makes of it.
NoTime == {}

\* "a", blank, 500 characters, 500 characters after a space, 501 characters
BotTexts == {<<0, 1, 0>>, <<2, 0, 0>>, <<0, MaxTextLen, 0>>, <<1, MaxTextLen, 0>>,
             <<0, MaxTextLen + 1, 0>>}

\* The users who talk to the bot.
BotSenders == {s \in Senders : s[1] <= MaxBotUsers}

Messages ==
    {[text |-> x, time |-> NoTime] : x \in BotTexts}
        \cup {[text |-> <<0, 1, 0>>, time |-> {t}] : t \in Times}

TimeInputParser_parse(msg) == msg.time

Updates ==
    {[kind |-> "start", user |-> s[1], chat |-> s[2]] : s \in BotSenders}
        \cup {[kind |-> "callback", user |-> s[1], chat |-> s[2], data |-> d] :
                s \in BotSenders, d \in {"create_reminder", "list_reminders", "cancel"}}
        \cup {[kind |-> "delete", user |-> s[1], chat |-> s[2], id |-> i] :
                s \in BotSenders, i \in 1..MaxCreates}
        \cup {[kind |-> "text", user |-> s[1], chat |-> s[2], msg |-> m] :
                s \in BotSenders, m \in Messages}

UserContext(state, chat_id, text) == [state |-> state, chat_id |-> chat_id, text |-> text]

Reply(kind) == [kind |-> kind]

handle_start(update) ==
    /\ update.kind = "start"
    /\ user_contexts' = [user_contexts EXCEPT
            ![update.user] = UserContext("MAIN_MENU", {}, {})]
    /\ reply' = Reply("welcome")
    /\ UNCHANGED <<now, phase, reminders, jobstore, pending_jobs, task, calls, created>>
    /\ UNCHANGED hist_vars

handle_create_reminder(update) ==
    /\ update.kind = "callback" /\ update.data = "create_reminder"
    /\ user_contexts' = [user_contexts EXCEPT
            ![update.user] = UserContext("SET_TEXT", {update.chat}, {})]
    /\ reply' = Reply("ask_text")
    /\ UNCHANGED <<now, phase, reminders, jobstore, pending_jobs, task, calls, created>>
    /\ UNCHANGED hist_vars

\* mutant: the cancel answers and leaves the context as it is
handle_cancel_keep(update) ==
    /\ update.kind = "callback" /\ update.data = "cancel"
    /\ reply' = Reply("cancelled")
    /\ UNCHANGED <<now, phase, reminders, jobstore, pending_jobs, task, calls, created,
                   user_contexts>>
    /\ UNCHANGED hist_vars

handle_cancel(update) ==
    /\ update.kind = "callback" /\ update.data = "cancel"
    /\ user_contexts' = [user_contexts EXCEPT
            ![update.user] = UserContext("MAIN_MENU", {}, {})]
    /\ reply' = Reply("cancelled")
    /\ UNCHANGED <<now, phase, reminders, jobstore, pending_jobs, task, calls, created>>
    /\ UNCHANGED hist_vars

handle_list_reminders(update) ==
    /\ update.kind = "callback" /\ update.data = "list_reminders"
    /\ reply' = [kind |-> "list",
                 ids |-> {r.id : r \in get_user_reminders(reminders, now, update.user)}]
    /\ UNCHANGED <<now, phase, reminders, jobstore, pending_jobs, task, calls, created,
                   user_contexts>>
    /\ UNCHANGED hist_vars

\* delete_reminder run to its end: True when the row was found.  The answer
\* names the callback (delete_<id>) it is given to.
handle_delete_reminder(update) ==
    /\ update.kind = "delete"
    /\ LET found == select_job_id(reminders, update.id)
       IN IF found # {}
            THEN /\ reminders' = delete_where_id(reminders, update.id)
                 /\ jobstore' = remove_job(jobstore, CHOOSE j \in found : TRUE)
                 /\ deleted' = deleted \cup {update.id}
                 /\ reply' = [kind |-> "deleted", id |-> update.id]
            ELSE /\ UNCHANGED <<reminders, jobstore, deleted>>
                 /\ reply' = [kind |-> "delete_error", id |-> update.id]
    /\ UNCHANGED <<now, phase, pending_jobs, task, calls, created, user_contexts>>
    /\ UNCHANGED <<late, uninterrupted, unarmed>>

\* user_id not in user_contexts, or a context in MAIN_MENU: nothing happens
text_ignored(update) ==
    /\ user_contexts[update.user].state \in {"none", "MAIN_MENU"}
    /\ reply' = NoReply
    /\ UNCHANGED <<now, phase, reminders, jobstore, pending_jobs, task, calls, created,
                   user_contexts>>
    /\ UNCHANGED hist_vars

text_set_text(update) ==
    /\ user_contexts[update.user].state = "SET_TEXT"
    /\ user_contexts' = [user_contexts EXCEPT
            ![update.user] = UserContext("SET_TIME", @.chat_id, {update.msg.text})]
    /\ reply' = Reply("ask_time")
    /\ UNCHANGED <<now, phase, reminders, jobstore, pending_jobs, task, calls, created>>
    /\ UNCHANGED hist_vars

text_bad_time(update) ==
    /\ user_contexts[update.user].state = "SET_TIME"
    /\ TimeInputParser_parse(update.msg) = NoTime
    /\ reply' = Reply("bad_format")
    /\ UNCHANGED <<now, phase, reminders, jobstore, pending_jobs, task, calls, created,
                   user_contexts>>
    /\ UNCHANGED hist_vars

\* ReminderCreate(...) raises ValueError: the message "Ошибка: ..."
text_invalid(update) ==
    /\ user_contexts[update.user].state = "SET_TIME"
    /\ \E rt \in TimeInputParser_parse(update.msg), x \in user_contexts[update.user].text :
            ReminderCreate_raises(x, rt, now)
    /\ reply' = [kind |-> "error",
                 errors |-> {f \in {"text", "remind_time"} :
                    \E rt \in TimeInputParser_parse(update.msg),
                       x \in user_contexts[update.user].text :
                        \/ f = "text" /\ validate_text_raises(x)
                        \/ f = "remind_time" /\ validate_remind_time_raises(rt, now)}]
    /\ UNCHANGED <<now, phase, reminders, jobstore, pending_jobs, task, calls, created,
                   user_contexts>>
    /\ UNCHANGED hist_vars

\* create_reminder run to its end.  An IntegrityError is no ValueError: it leaves
\* the handler, which answers nothing and keeps the state.
text_create(update) ==
    /\ user_contexts[update.user].state = "SET_TIME"
    /\ created < MaxCreates
    /\ \E rt \in TimeInputParser_parse(update.msg), x \in user_contexts[update.user].text,
          c \in user_contexts[update.user].chat_id :
        /\ ~ReminderCreate_raises(x, rt, now)
        /\ LET reminder == ReminderCreate(update.user, c, x, rt)
               job_id == make_job_id(update.user, now)
               jobs == IF get_job(jobstore, job_id) # {}
                         THEN remove_job(jobstore, job_id) ELSE jobstore
           IN IF UniqueViolation(reminders, job_id)
                THEN /\ jobstore' = jobs
                     /\ UNCHANGED <<reminders, user_contexts, uninterrupted>>
                     /\ reply' = NoReply
                ELSE /\ reminders' = reminders \cup
                            {ReminderModel(reminders, reminder, job_id, created + 1)}
                     /\ jobstore' = add_job(jobs,
                            Job(job_id, rt, c, reminder.text, created + 1))
                     /\ user_contexts' = [user_contexts EXCEPT
                            ![update.user].state = "MAIN_MENU"]
                     /\ uninterrupted' = uninterrupted \cup {created + 1}
                     /\ reply' = Reply("created")
    /\ created' = created + 1
    /\ UNCHANGED <<now, phase, pending_jobs, task, calls, late, deleted, unarmed>>

handle_text_input(update) ==
    /\ update.kind = "text"
    /\ \/ text_ignored(update)
       \/ text_set_text(update)
       \/ text_bad_time(update)
       \/ text_invalid(update)
       \/ text_create(update)

\* A due job runs and the transport delivers
BotFire == \E j \in jobstore : fire(j, TRUE)

InitBot ==
    /\ now = 0
    /\ phase = "running"
    /\ reminders = {}
    /\ jobstore = {}
    /\ pending_jobs = {}
    /\ task = [t \in Tasks |-> Idle]
    /\ calls = <<>>
    /\ created = 0
    /\ late = {}
    /\ uninterrupted = {}
    /\ deleted = {}
    /\ unarmed = {}
    /\ user_contexts = [u \in Users |-> NoContext]
    /\ reply = NoReply

NextBot ==
    \/ \E upd \in Updates : handle_start(upd)
    \/ \E upd \in Updates : handle_create_reminder(upd)
    \/ \E upd \in Updates : handle_cancel(upd)
    \/ \E upd \in Updates : handle_list_reminders(upd)
    \/ \E upd \in Updates : handle_delete_reminder(upd)
    \/ \E upd \in Updates : handle_text_input(upd)
    \/ BotFire
    \/ Tick

SpecBot == InitBot /\ [][NextBot]_vars

\* ================================================================ claims
Quiescent == phase = "running" /\ \A t \in Tasks : task[t] = Idle

FutureReminders == {r \in reminders : r.remind_time > now}

\* C1: whenever the process runs and no create or delete is in progress, every
\* stored reminder with remind_time in the future has exactly one live job with
\* its job_id, and every live job has a stored reminder with its job_id.
C1_CrossStoreInvariant ==
    Quiescent =>
        /\ \A r \in FutureReminders : Cardinality(get_job(jobstore, r.job_id)) = 1
        /\ \A j \in jobstore : \E r \in reminders : r.job_id = j.id

\* C2: send_reminder is invoked at most once for the reminder of each
\* create_reminder call, over every interleaving of create, delete, fire and
\* restart.
C2_AtMostOnce == \A u \in 1..created : Invocations(calls, u) <= 1

\* C2 witness: restore_reminders has just run while a delivered reminder is
\* still stored.
C2_Witness ==
    /\ phase = "restored"
    /\ \E r \in reminders : Invocations(calls, r.uid) = 1

\* C3: once recovery is complete and the scheduler has nothing due, every
\* reminder that had elapsed undelivered while the process was down has had
\* its delivery callback invoked.
C3_LateDelivery ==
    (phase = "running" /\ Due(jobstore, now) = {}) =>
        \A u \in late : Invocations(calls, u) >= 1

\* The row this create call committed has been deleted by a delete call since.
RowDeleted(t) == task[t].pc = "arm" /\ ~\E r \in reminders : r.uid = task[t].uid

\* C4: when two create calls of one user are in flight together and one of
\* them ends (its row not deleted by a delete call in between), it has stored
\* its reminder and armed its job, and the row and job of the other call are
\* untouched.
C4_ConcurrentCreates ==
    [][\A t1, t2 \in Tasks :
        ( /\ t1 # t2
          /\ task[t1].op = "create" /\ task[t2].op = "create"
          /\ task[t1].reminder.user_id = task[t2].reminder.user_id
          /\ ~RowDeleted(t1)
          /\ task'[t1] = Idle /\ phase' = "running" )
        => /\ \E r \in reminders' : r.uid = task[t1].uid
           /\ \E j \in jobstore' : j.uid = task[t1].uid
           /\ \A r \in reminders : r.uid = task[t2].uid => r \in reminders'
           /\ \A j \in jobstore : j.uid = task[t2].uid => j \in jobstore'
      ]_vars

\* C5: when a create call with valid input ends while remind_time is still in
\* the future (its row not deleted by a delete call in between),
\* get_user_reminders of that user holds the reminder of this call with the
\* user_id, chat_id, text and remind_time given, under a job_id no other
\* stored reminder has.
C5_CreateThenList ==
    [][\A t \in Tasks :
        ( /\ task[t].op = "create"
          /\ ~RowDeleted(t)
          /\ task'[t] = Idle /\ phase' = "running"
          /\ task[t].reminder.remind_time > now' )
        => \E r \in get_user_reminders(reminders', now', task[t].reminder.user_id) :
                /\ r.uid = task[t].uid
                /\ r.chat_id = task[t].reminder.chat_id
                /\ r.text = task[t].reminder.text
                /\ r.remind_time = task[t].reminder.remind_time
                /\ \A o \in reminders' : o # r => o.job_id # r.job_id
      ]_vars

\* C6: a job that fires when its reminder row is gone sends no message.
C6_FireAfterDeleteNoOp ==
    \A i \in DOMAIN calls : ~calls[i].row => ~calls[i].sent

\* C7: when restore_reminders has completed in a fresh process, the jobs it
\* armed are exactly N, N the number of stored reminders with remind_time in
\* the future, and each such reminder has exactly one of them, with its
\* job_id, its remind_time as fire time and (chat_id, text) as payload.
C7_Reconciliation ==
    phase = "restored" =>
        /\ Cardinality(pending_jobs) = Cardinality(FutureReminders)
        /\ \A r \in FutureReminders :
                /\ Cardinality(get_job(pending_jobs, r.job_id)) = 1
                /\ \A j \in get_job(pending_jobs, r.job_id) :
                        j.run_date = r.remind_time /\ j.args = <<r.chat_id, r.text>>

\* C7 witness: restore_reminders has armed one reminder and passed over an
\* elapsed one.
C7_Witness ==
    /\ phase = "restored"
    /\ Cardinality(pending_jobs) = 1
    /\ \E r \in reminders : r.remind_time <= now

\* C10: a stored reminder whose create returned before remind_time, in a
\* process that has run since, has been delivered exactly once when
\* remind_time has passed, and get_user_reminders no longer returns it.
C10_DeliveredOnce ==
    phase = "running" =>
        \A r \in reminders :
            (r.uid \in uninterrupted /\ r.remind_time < now) =>
                /\ Invocations(calls, r.uid) = 1
                /\ r \notin get_user_reminders(reminders, now, r.user_id)

\* C8: a create request with a time in the future is accepted exactly when
\* its text, trimmed, has a length in (0, 500].
C8_TextValidation ==
    [][\A upd \in Updates :
        ( /\ upd.kind = "text"
          /\ user_contexts[upd.user].state = "SET_TIME"
          /\ \E rt \in TimeInputParser_parse(upd.msg) : rt > now
          /\ handle_text_input(upd) )
        => \A x \in user_contexts[upd.user].text :
                (created' = created + 1) <=>
                    (0 < TextLen(strip(x)) /\ TextLen(strip(x)) <= MaxTextLen)
      ]_vars

\* C9: a create request whose text has more than 500 characters or whose
\* remind_time is not later than now is answered with an error and changes
\* neither the reminders nor the jobs.
C9_InvalidCreate ==
    [][\A upd \in Updates :
        ( /\ upd.kind = "text"
          /\ user_contexts[upd.user].state = "SET_TIME"
          /\ \E rt \in TimeInputParser_parse(upd.msg), x \in user_contexts[upd.user].text :
                TextLen(x) > MaxTextLen \/ rt <= now
          /\ handle_text_input(upd) )
        => /\ reply'.kind = "error"
           /\ reminders' = reminders
           /\ jobstore' = jobstore
           /\ pending_jobs' = pending_jobs
      ]_vars

\* C9 witness: a request with remind_time = now (and an acceptable text) has
\* been refused while a reminder and its job were stored.
C9_Witness ==
    /\ reply.kind = "error"
    /\ reply.errors = {"remind_time"}
    /\ reminders # {} /\ jobstore # {}

\* C11: once delete_reminder has returned True for an id, get_user_reminders
\* returns no reminder with that id, for any user, whatever has happened since.
C11_DeletedNeverListed ==
    \A u \in Users :
        \A r \in get_user_reminders(reminders, now, u) : r.id \notin deleted

\* C12: delete_reminder of a stored reminder id returns True and leaves no
\* row with that id, whether or not the reminder's job is still scheduled, and
\* the same call made again right after it returns False, without an error and
\* without changing anything.
C12_DeleteIdempotent ==
    [][\A upd \in Updates :
        (upd.kind = "delete" /\ handle_delete_reminder(upd))
        => /\ (\E r \in reminders : r.id = upd.id)
                => /\ reply' = [kind |-> "deleted", id |-> upd.id]
                   /\ ~\E r \in reminders' : r.id = upd.id
           /\ (reply = [kind |-> "deleted", id |-> upd.id])
                => /\ reply' = [kind |-> "delete_error", id |-> upd.id]
                   /\ reminders' = reminders
                   /\ jobstore' = jobstore
      ]_vars

\* C12 witness: the only reminder created has fired, was deleted, and the
\* second delete of its id has returned False.
C12_Witness ==
    /\ reply.kind = "delete_error"
    /\ reply.id \in deleted
    /\ created = 1 /\ Len(calls) = 1
    /\ reminders = {}

\* C13: a create_reminder call stores its row before it arms its job, so every
\* job the call adds has its row stored; and a call whose INSERT fails arms no
\* job and removes no job.
C13_PersistThenArm ==
    [][\A upd \in Updates :
        ( /\ upd.kind = "text"
          /\ user_contexts[upd.user].state = "SET_TIME"
          /\ handle_text_input(upd)
          /\ created' = created + 1 )
        => /\ \A j \in jobstore' \ jobstore :
                \E r \in reminders' : r.job_id = j.id /\ r.uid = j.uid
           /\ UniqueViolation(reminders, make_job_id(upd.user, now))
                => reminders' = reminders /\ jobstore' = jobstore
      ]_vars

\* C14: a reminder whose create_reminder committed the row and did not arm the
\* job is still stored, with no job of that call, when restore_reminders next
\* runs; if its remind_time is then in the future, restore_reminders arms
\* exactly one job for it (unless this add_job raises too), with its job_id,
\* remind_time and payload.
C14_ArmFailureRecovery ==
    [][\A failed \in SUBSET reminders :
        restore_reminders_run(failed)
        => \A r \in reminders :
            r.uid \in unarmed
            => /\ r \in reminders'
               /\ \A j \in jobstore' : j.uid # r.uid
               /\ (r.remind_time > now /\ r \notin failed)
                    => \E j \in pending_jobs' :
                        /\ get_job(pending_jobs', r.job_id) = {j}
                        /\ j.run_date = r.remind_time
                        /\ j.args = <<r.chat_id, r.text>>
      ]_vars

\* C14 witness: restore_reminders has armed the job of a reminder whose create
\* never did.
C14_Witness ==
    /\ phase = "restored"
    /\ \E r \in reminders :
        /\ r.uid \in unarmed
        /\ r.remind_time > now
        /\ get_job(jobstore, r.job_id) = {}
        /\ get_job(pending_jobs, r.job_id) # {}

\* C16: when add_job raises for some of the reminders in restore_reminders,
\* restore_reminders still completes and every other selected reminder has
\* exactly one job armed, with its job_id, remind_time and payload.
C16_RestoreIsolation ==
    [][\A failed \in SUBSET reminders :
        ( /\ failed # {}
          /\ failed \subseteq restore_select(reminders, now)
          /\ restore_reminders_run(failed) )
        => /\ phase' = "restored"
           /\ \A r \in restore_select(reminders, now) \ failed :
                \E j \in pending_jobs' :
                    /\ get_job(pending_jobs', r.job_id) = {j}
                    /\ j.run_date = r.remind_time
                    /\ j.args = <<r.chat_id, r.text>>
      ]_vars

\* C16 witness: of two reminders to restore, add_job raised for one and the
\* other is armed.
C16_Witness ==
    /\ phase = "restored"
    /\ Cardinality(restore_select(reminders, now)) = 2
    /\ Cardinality(pending_jobs) = 1

\* C15: when restore_reminders has completed and the scheduler is started, the
\* live job_ids are exactly the job_ids of the stored reminders with
\* remind_time in the future, whatever jobs the job store held before.
C15_NoStaleJobs ==
    [][(phase = "restored" /\ phase' = "running")
        => {j.id : j \in jobstore'} = {r.job_id : r \in FutureReminders}
      ]_vars

\* C17: arming a job under a job_id that has a job replaces that job: after
\* every step there is at most one job per job_id, among the live jobs and
\* among the pending ones, and after an arm (add_job in create_reminder, or
\* the start of the scheduler with the jobs restore_reminders added) the job
\* under that job_id is the one just armed, with its fire time and payload.
C17_UpsertOnArm ==
    [][/\ \A j1, j2 \in jobstore' : j1.id = j2.id => j1 = j2
       /\ \A j1, j2 \in pending_jobs' : j1.id = j2.id => j1 = j2
       /\ \A t \in Tasks :
            (task[t].op = "create" /\ task[t].pc = "arm" /\ create_arm(t))
            => get_job(jobstore', task[t].job_id) =
                    {Job(task[t].job_id, task[t].reminder.remind_time,
                         task[t].reminder.chat_id, task[t].reminder.text, task[t].uid)}
       /\ (phase = "restored" /\ phase' = "running")
            => \A p \in pending_jobs : get_job(jobstore', p.id) = {p}
      ]_vars

\* C17 witness: restore_reminders has armed a job under a job_id the job store
\* holds another job for.
C17_Witness ==
    /\ phase = "restored"
    /\ \E p \in pending_jobs, j \in jobstore : p.id = j.id /\ p # j

\* C18: when send_message fails inside send_reminder, the process goes on
\* running, the job is gone from the scheduler, and send_reminder is never
\* invoked again for that job: a failed invocation stays the only invocation
\* of its reminder and no job of it is live or pending.
C18_NoRetry ==
    [][/\ \A job \in jobstore :
            fire(job, FALSE)
            => /\ phase' = "running"
               /\ get_job(jobstore', job.id) = {}
               /\ task' = task
       /\ \A i \in DOMAIN calls' :
            ~calls'[i].sent
            => /\ Invocations(calls', calls'[i].uid) = 1
               /\ \A j \in jobstore' \cup pending_jobs' : j.uid # calls'[i].uid
      ]_vars

\* C18 witness: a delivery has failed, its reminder is still stored, time has
\* moved on and the scheduler has nothing due.
C18_Witness ==
    /\ phase = "running"
    /\ Due(jobstore, now) = {}
    /\ \E i \in DOMAIN calls :
        /\ ~calls[i].sent
        /\ \E r \in reminders : r.uid = calls[i].uid /\ r.remind_time < now

\* C19: delete_reminder of an id no stored reminder has returns False without
\* an error and changes nothing: no row is removed and no job is cancelled.
C19_DeleteMissing ==
    [][\A upd \in Updates :
        ( /\ upd.kind = "delete"
          /\ ~\E r \in reminders : r.id = upd.id
          /\ handle_delete_reminder(upd) )
        => /\ reply' = [kind |-> "delete_error", id |-> upd.id]
           /\ reminders' = reminders
           /\ jobstore' = jobstore
           /\ pending_jobs' = pending_jobs
           /\ deleted' = deleted
      ]_vars

\* C19 witness: the delete of an id never given to a reminder has returned
\* False while another reminder and its job were stored.
C19_Witness ==
    /\ reply.kind = "delete_error"
    /\ reply.id \notin deleted
    /\ \A r \in reminders : r.id # reply.id
    /\ reminders # {} /\ jobstore # {}

\* C20: the steps of a delete_reminder(id) call remove no row but the one with
\* that id and no job but the one under the job_id read from that row; every
\* other row and job, live or pending, stays as it is.
C20_DeleteFrame ==
    [][\A t \in Tasks :
        (task[t].op = "delete" /\ task'[t] # task[t] /\ phase' = "running")
        => /\ reminders' \subseteq reminders
           /\ \A r \in reminders \ reminders' : r.id = task[t].id
           /\ jobstore' \subseteq jobstore
           /\ \A j \in jobstore \ jobstore' : j.id = task[t].job_id
           /\ task[t].pc = "commit" => jobstore' = jobstore
           /\ task[t].pc = "remove" => reminders' = reminders
           /\ pending_jobs' = pending_jobs
      ]_vars

\* C20 witness: a delete has removed its row, and another reminder and a job
\* under another job_id are still there.
C20_Witness ==
    \E t \in Tasks :
        /\ task[t].op = "delete" /\ task[t].pc = "remove"
        /\ reminders # {}
        /\ \E j \in jobstore : j.id # task[t].job_id

====
